---- MODULE Spec2Model ----
(***************************************************************************)
(* The command/response bridge and the CDP end-to-end run of               *)
(* docs/examples/cdp-e2e-test.py.                                          *)
(*                                                                         *)
(* Shared state of the bridge is the module-level list command_queue and   *)
(* the dict response_dict.  They are touched by the Flask request handlers *)
(* (one thread per request) and by ExtensionBridge.send_command.  Each     *)
(* action below is one step that is atomic under the interpreter lock:     *)
(* one read or one update of the shared list/dict, together with the       *)
(* thread-local statements that follow it.                                 *)
(*                                                                         *)
(* Time is counted in whole seconds.  The only use the code makes of the   *)
(* clock is the difference time.time() - start_time of a waiting           *)
(* send_command, which is kept per thread as elapsed.                      *)
(***************************************************************************)
EXTENDS Integers, Sequences, FiniteSets, TLC

(* ------------------------------ bounds -------------------------------- *)
NumCallers == 2
NumHandlers == 2
MaxCmds == 2
MaxTimeout == 1
MaxPosts == 2
NumTabs == 2
MaxEvents == 1

(* ------------------------- program constants -------------------------- *)
\* send_command(command, params=None, timeout=5)
DefaultTimeout == 5

(* ------------------------------ domains ------------------------------- *)
Main == 0
Callers == 1..NumCallers
Threads == 0..NumCallers
Handlers == 1..NumHandlers
Ids == 1..MaxCmds
TabIds == 1..NumTabs
CommandNames == {"get_active_tab", "get_all_tabs"}

Results ==
    {[success |-> TRUE, data |-> t, error |-> ""] : t \in TabIds}
        \cup {[success |-> FALSE, data |-> 0, error |-> "no active tab"]}
NoResult == [success |-> FALSE, data |-> 0, error |-> "(none)"]
NoError == [type |-> "", msg |-> ""]
\* a frame read from the connection: id 0 is a frame without an id (an event)
NoFrame == [id |-> -1]

VARIABLES
    command_queue,   \* the list command_queue
    response_dict,   \* the dict response_dict: id -> result
    spc,             \* per thread: position inside ExtensionBridge.send_command
    cmd_id,          \* per thread: local cmd_id
    command,         \* per thread: parameter command
    timeout,         \* per thread: parameter timeout
    elapsed,         \* per thread: time.time() - start_time, in seconds
    response,        \* per thread: the value send_command returned
    error,           \* per thread: the exception send_command raised
    hpc,             \* per request handler: position inside get_command
    indexErrors,     \* history: some get_command raised IndexError (HTTP 500)
    usedIds,         \* history: ids uuid4 has produced in this process
    enqueued,        \* history: ids in the order they were appended
    delivered,       \* history: ids in the order get_command popped them
    lastPosted,      \* history: id -> result of the latest post_response
    postCount,       \* history: id -> number of post_response calls
    rpc,             \* main thread: position inside main / run_test
    keyIdx,          \* main thread: which send_key call of run_test is running
    before_tab,      \* run_test: id of before_tab (0: not assigned)
    after_tab,       \* run_test: id of after_tab (0: not assigned)
    report,          \* what the run printed as its outcome
    caught,          \* the exception caught by run_test (line 174) or main (236)
    exit_status,     \* exit status of the process (-1: still running)
    ws,              \* CDPClient.ws: "none", "open" or "closed"
    cdp_cmd_id,      \* CDPClient.cmd_id
    cdp_response,    \* the frame the running CDPClient.send_command returned
    closeCount,      \* history: number of cdp.close() calls
    sent,            \* history: the requests written to the connection
    cdpReturns,      \* history: number of returns of CDPClient.send_command
    pending,         \* endpoint: request ids received and not yet answered
    inbox,           \* connection: frames sent by the endpoint, not yet read
    peerClosed,      \* connection: the endpoint has closed it
    eventCount       \* endpoint: number of event frames it has sent

bridgeShared == <<command_queue, response_dict>>
callerVars == <<spc, cmd_id, command, timeout, elapsed, response, error>>
handlerVars == <<hpc, indexErrors>>
history == <<usedIds, enqueued, delivered, lastPosted, postCount>>
runVars == <<rpc, keyIdx, before_tab, after_tab, report, caught, exit_status>>
cdpVars == <<ws, cdp_cmd_id, cdp_response, closeCount, sent, cdpReturns>>
endpointVars == <<pending, inbox, peerClosed, eventCount>>
vars == <<command_queue, response_dict, spc, cmd_id, command, timeout,
          elapsed, response, error, hpc, indexErrors, usedIds, enqueued,
          delivered, lastPosted, postCount, rpc, keyIdx, before_tab,
          after_tab, report, caught, exit_status, ws, cdp_cmd_id, cdp_response, closeCount, sent,
          cdpReturns, pending, inbox, peerClosed, eventCount>>

(* ------------------------------ helpers ------------------------------- *)
\* dict.pop(k) / del: the dict without key k
DictRemove(d, k) == [j \in DOMAIN d \ {k} |-> d[j]]
\* Faulty variant of DictSet: d.setdefault(k, v), an existing entry is kept.
DictSetDefault(d, k, v) ==
    [j \in DOMAIN d \cup {k} |-> IF j \in DOMAIN d THEN d[j] ELSE v]
\* d[k] = v
DictSet(d, k, v) == [j \in DOMAIN d \cup {k} |-> IF j = k THEN v ELSE d[j]]
\* the ids of a sequence of commands
IdsOf(q) == [n \in 1..Len(q) |-> q[n].id]
Count(x, s) == Cardinality({n \in 1..Len(s) : s[n] = x})
\* Faulty variant of Uuid4: any token, also one produced before.
Uuid4Repeating == Ids
\* str(uuid.uuid4()): the possible outcomes, any token not produced before
\* in this process (a repeated 122-bit random token is not modelled)
Uuid4 == Ids \ usedIds
\* the ids the poller can post a result for: it learns an id only from a
\* command that get_command returned to it
Claimed == {delivered[n] : n \in 1..Len(delivered)}

(* ------------------------- HTTP bridge server ------------------------- *)
\* Faulty variant of GetCheck: the emptiness test inverted (if not command_queue).
GetCheckInverted(h) ==
    /\ hpc[h] = "idle"
    /\ IF command_queue = <<>>
         THEN hpc' = [hpc EXCEPT ![h] = "pop"]
         ELSE hpc' = hpc
    /\ UNCHANGED <<bridgeShared, callerVars, indexErrors, history>>
    /\ UNCHANGED <<runVars, cdpVars, endpointVars>>

\* get_command, line 30: if command_queue:
GetCheck(h) ==
    /\ hpc[h] = "idle"
    /\ IF command_queue # <<>>
         THEN hpc' = [hpc EXCEPT ![h] = "pop"]
         ELSE hpc' = hpc    \* line 33: return jsonify(None)
    /\ UNCHANGED <<bridgeShared, callerVars, indexErrors, history>>
    /\ UNCHANGED <<runVars, cdpVars, endpointVars>>

\* Faulty variant of GetPop: the head is read but not removed (command_queue[0]).
GetPopPeek(h) ==
    /\ hpc[h] = "pop"
    /\ hpc' = [hpc EXCEPT ![h] = "idle"]
    /\ IF command_queue # <<>>
         THEN /\ delivered' = Append(delivered, Head(command_queue).id)
              /\ indexErrors' = indexErrors
         ELSE /\ delivered' = delivered
              /\ indexErrors' = TRUE
    /\ UNCHANGED <<bridgeShared, callerVars, usedIds, enqueued, lastPosted,
                   postCount>>
    /\ UNCHANGED <<runVars, cdpVars, endpointVars>>

\* Faulty variant of GetPop: the last element is removed (command_queue.pop()).
GetPopLast(h) ==
    /\ hpc[h] = "pop"
    /\ hpc' = [hpc EXCEPT ![h] = "idle"]
    /\ IF command_queue # <<>>
         THEN /\ command_queue' = SubSeq(command_queue, 1, Len(command_queue) - 1)
              /\ delivered' =
                    Append(delivered, command_queue[Len(command_queue)].id)
              /\ indexErrors' = indexErrors
         ELSE /\ command_queue' = command_queue
              /\ delivered' = delivered
              /\ indexErrors' = TRUE
    /\ UNCHANGED <<response_dict, callerVars, usedIds, enqueued, lastPosted,
                   postCount>>
    /\ UNCHANGED <<runVars, cdpVars, endpointVars>>

\* get_command, lines 31-32: cmd = command_queue.pop(0); return jsonify(cmd)
GetPop(h) ==
    /\ hpc[h] = "pop"
    /\ hpc' = [hpc EXCEPT ![h] = "idle"]
    /\ IF command_queue # <<>>
         THEN /\ command_queue' = Tail(command_queue)
              /\ delivered' = Append(delivered, Head(command_queue).id)
              /\ indexErrors' = indexErrors
         ELSE \* IndexError: pop from empty list; Flask answers 500
              /\ command_queue' = command_queue
              /\ delivered' = delivered
              /\ indexErrors' = TRUE
    /\ UNCHANGED <<response_dict, callerVars, usedIds, enqueued,
                   lastPosted, postCount>>
    /\ UNCHANGED <<runVars, cdpVars, endpointVars>>

\* post_response, lines 38-40: response_dict[data['id']] = data['result']
PostResponse(i, r) ==
    /\ postCount[i] < MaxPosts
    /\ response_dict' = DictSet(response_dict, i, r)
    /\ lastPosted' = [lastPosted EXCEPT ![i] = r]
    /\ postCount' = [postCount EXCEPT ![i] = @ + 1]
    /\ UNCHANGED <<command_queue, callerVars, handlerVars, usedIds,
                   enqueued, delivered>>
    /\ UNCHANGED <<runVars, cdpVars, endpointVars>>

(* ----------------------- ExtensionBridge client ----------------------- *)
\* send_command, lines 56-68: build command_obj, command_queue.append(command_obj),
\* start_time = time.time()
SendEnqueue(t, c, to) ==
    /\ spc[t] \in {"idle", "returned", "raised"}
    /\ \E i \in Uuid4 :
          /\ cmd_id' = [cmd_id EXCEPT ![t] = i]
          /\ command_queue' =
                Append(command_queue, [id |-> i, command |-> c, params |-> <<>>])
          /\ usedIds' = usedIds \cup {i}
          /\ enqueued' = Append(enqueued, i)
    /\ command' = [command EXCEPT ![t] = c]
    /\ timeout' = [timeout EXCEPT ![t] = to]
    /\ response' = [response EXCEPT ![t] = NoResult]
    /\ error' = [error EXCEPT ![t] = NoError]
    /\ elapsed' = [elapsed EXCEPT ![t] = 0]
    /\ spc' = [spc EXCEPT ![t] = "while"]
    /\ UNCHANGED <<response_dict, handlerVars, delivered, lastPosted, postCount>>

\* send_command, line 69: while cmd_id not in response_dict
SendWhile(t) ==
    /\ spc[t] = "while"
    /\ spc' = [spc EXCEPT ![t] =
                 IF cmd_id[t] \in DOMAIN response_dict THEN "pop" ELSE "deadline"]
    /\ UNCHANGED <<bridgeShared, cmd_id, command, timeout, elapsed, response,
                   error, handlerVars, history>>
    /\ UNCHANGED <<runVars, cdpVars, endpointVars>>

\* Faulty variant of SendDeadline: the deadline test is >= instead of >.
SendDeadlineEarly(t) ==
    /\ spc[t] = "deadline"
    /\ IF elapsed[t] >= timeout[t]
         THEN /\ spc' = [spc EXCEPT ![t] = "raised"]
              /\ error' = [error EXCEPT ![t] =
                             [type |-> "TimeoutError", msg |-> command[t]]]
              /\ timeout' = [timeout EXCEPT ![t] = 0]
              /\ elapsed' = [elapsed EXCEPT ![t] = 0]
         ELSE /\ spc' = [spc EXCEPT ![t] = "while"]
              /\ UNCHANGED <<error, timeout, elapsed>>
    /\ UNCHANGED <<bridgeShared, cmd_id, command, response, handlerVars,
                   history>>
    /\ UNCHANGED <<runVars, cdpVars, endpointVars>>

\* Faulty variant of SendDeadline: on expiry the command is appended again
\* and the wait starts over instead of raising.
SendDeadlineRetry(t) ==
    /\ spc[t] = "deadline"
    /\ IF elapsed[t] > timeout[t]
         THEN /\ command_queue' =
                    Append(command_queue,
                           [id |-> cmd_id[t], command |-> command[t], params |-> <<>>])
              /\ enqueued' = Append(enqueued, cmd_id[t])
              /\ elapsed' = [elapsed EXCEPT ![t] = 0]
         ELSE UNCHANGED <<command_queue, enqueued, elapsed>>
    /\ spc' = [spc EXCEPT ![t] = "while"]
    /\ UNCHANGED <<response_dict, cmd_id, command, timeout, response, error,
                   handlerVars, usedIds, delivered, lastPosted, postCount>>
    /\ UNCHANGED <<runVars, cdpVars, endpointVars>>

\* Faulty variant of SendDeadline: a call that times out takes its command
\* back out of the queue.
SendDeadlineCancel(t) ==
    /\ spc[t] = "deadline"
    /\ IF elapsed[t] > timeout[t]
         THEN /\ spc' = [spc EXCEPT ![t] = "raised"]
              /\ error' = [error EXCEPT ![t] =
                             [type |-> "TimeoutError", msg |-> command[t]]]
              /\ timeout' = [timeout EXCEPT ![t] = 0]
              /\ elapsed' = [elapsed EXCEPT ![t] = 0]
              /\ command_queue' =
                    SelectSeq(command_queue, LAMBDA c : c.id # cmd_id[t])
         ELSE /\ spc' = [spc EXCEPT ![t] = "while"]
              /\ UNCHANGED <<error, timeout, elapsed, command_queue>>
    /\ UNCHANGED <<response_dict, cmd_id, command, response, handlerVars,
                   history>>
    /\ UNCHANGED <<runVars, cdpVars, endpointVars>>

\* send_command, lines 70-72: the deadline test, then raise or sleep(0.1)
SendDeadline(t) ==
    /\ spc[t] = "deadline"
    /\ IF elapsed[t] > timeout[t]
         THEN \* raise TimeoutError(f"Extension did not respond to {command}")
              /\ spc' = [spc EXCEPT ![t] = "raised"]
              /\ error' = [error EXCEPT ![t] =
                             [type |-> "TimeoutError", msg |-> command[t]]]
              /\ timeout' = [timeout EXCEPT ![t] = 0]
              /\ elapsed' = [elapsed EXCEPT ![t] = 0]
         ELSE \* time.sleep(0.1), back to the loop test
              /\ spc' = [spc EXCEPT ![t] = "while"]
              /\ UNCHANGED <<error, timeout, elapsed>>
    /\ UNCHANGED <<bridgeShared, cmd_id, command, response, handlerVars,
                   history>>
    /\ UNCHANGED <<runVars, cdpVars, endpointVars>>

\* Faulty variant of SendPop: some entry of the table is taken (response_dict.popitem()).
SendPopAny(t) ==
    /\ spc[t] = "pop"
    /\ \E k \in DOMAIN response_dict :
          /\ response' = [response EXCEPT ![t] = response_dict[k]]
          /\ response_dict' = DictRemove(response_dict, k)
    /\ spc' = [spc EXCEPT ![t] = "returned"]
    /\ timeout' = [timeout EXCEPT ![t] = 0]
    /\ elapsed' = [elapsed EXCEPT ![t] = 0]
    /\ UNCHANGED <<command_queue, cmd_id, command, error, handlerVars,
                   history>>
    /\ UNCHANGED <<runVars, cdpVars, endpointVars>>

\* Faulty variant of SendPop: the entry is read but left in the table (response_dict[cmd_id]).
SendPopKeep(t) ==
    /\ spc[t] = "pop"
    /\ cmd_id[t] \in DOMAIN response_dict
    /\ response' = [response EXCEPT ![t] = response_dict[cmd_id[t]]]
    /\ spc' = [spc EXCEPT ![t] = "returned"]
    /\ timeout' = [timeout EXCEPT ![t] = 0]
    /\ elapsed' = [elapsed EXCEPT ![t] = 0]
    /\ UNCHANGED <<bridgeShared, cmd_id, command, error, handlerVars, history>>
    /\ UNCHANGED <<runVars, cdpVars, endpointVars>>

\* send_command, lines 75-77: response = response_dict.pop(cmd_id); return
\* (dict.pop raises KeyError when the key is gone)
SendPop(t) ==
    /\ spc[t] = "pop"
    /\ IF cmd_id[t] \in DOMAIN response_dict
         THEN /\ response' = [response EXCEPT ![t] = response_dict[cmd_id[t]]]
              /\ response_dict' = DictRemove(response_dict, cmd_id[t])
              /\ spc' = [spc EXCEPT ![t] = "returned"]
              /\ error' = error
         ELSE /\ error' = [error EXCEPT ![t] = [type |-> "KeyError", msg |-> ""]]
              /\ spc' = [spc EXCEPT ![t] = "raised"]
              /\ UNCHANGED <<response, response_dict>>
    /\ timeout' = [timeout EXCEPT ![t] = 0]
    /\ elapsed' = [elapsed EXCEPT ![t] = 0]
    /\ UNCHANGED <<command_queue, cmd_id, command, handlerVars, history>>
    /\ UNCHANGED <<runVars, cdpVars, endpointVars>>

(* ------------------------------- clock -------------------------------- *)
\* the threads inside the wait loop of send_command (lines 69-72)
Waiting == {t \in Threads : spc[t] \in {"while", "deadline"}}
\* One second passes.  A second that no waiting thread can tell from the
\* previous one (every wait is already past its deadline) is not counted.
Tick ==
    /\ \E t \in Waiting : elapsed[t] <= timeout[t]
    /\ elapsed' = [t \in Threads |->
                     IF t \in Waiting /\ elapsed[t] <= timeout[t]
                       THEN elapsed[t] + 1 ELSE elapsed[t]]
    /\ UNCHANGED <<bridgeShared, spc, cmd_id, command, timeout, response,
                   error, handlerVars, history>>
    /\ UNCHANGED <<runVars, cdpVars, endpointVars>>

(* ----------------------------- CDP client ----------------------------- *)
\* the three send_key calls of run_test (lines 181, 185, 189); text "" is None
KeySeq ==
    << [key_name |-> "t", text |-> "t", code |-> "KeyT", key_code |-> 84],
       [key_name |-> "ArrowDown", text |-> "", code |-> "ArrowDown", key_code |-> 40],
       [key_name |-> "Enter", text |-> "", code |-> "Enter", key_code |-> 13] >>

\* params or {} with no params given
NoParams ==
    [type |-> "", key |-> "", text |-> "", code |-> "",
     windowsVirtualKeyCode |-> 0, nativeVirtualKeyCode |-> 0]
\* send_key, lines 123-128 and 137-142: the params of the keyDown and keyUp events
KeyParams(type, k) ==
    [type |-> type, key |-> k.key_name, text |-> "",
     code |-> IF k.code # "" THEN k.code ELSE "",
     windowsVirtualKeyCode |-> IF k.key_code # 0 THEN k.key_code ELSE 0,
     nativeVirtualKeyCode |-> IF k.key_code # 0 THEN k.key_code ELSE 0]
\* send_key, line 133: the params of the char event
CharParams(k) ==
    [type |-> "char", key |-> k.key_name, text |-> k.text, code |-> "",
     windowsVirtualKeyCode |-> 0, nativeVirtualKeyCode |-> 0]

\* the positions of run_test at which CDPClient.send_command is called
CdpCallSites == {"front", "key_down", "key_char", "key_up"}
\* the method and params of the call made at position p
CdpMethod(p) == IF p = "front" THEN "Page.bringToFront" ELSE "Input.dispatchKeyEvent"
CdpParams(p, n) ==
    IF p = "front" THEN NoParams
    ELSE IF p = "key_down" THEN KeyParams("keyDown", KeySeq[n])
    ELSE IF p = "key_char" THEN CharParams(KeySeq[n])
    ELSE KeyParams("keyUp", KeySeq[n])
\* position p, inside the call, after the request was written
InRecv(p) ==
    IF p = "front" THEN "front_recv"
    ELSE IF p = "key_down" THEN "key_down_recv"
    ELSE IF p = "key_char" THEN "key_char_recv"
    ELSE "key_up_recv"
RecvSites == {InRecv(p) : p \in CdpCallSites}

\* Faulty variant of AfterKeyDown: the char event is sent for every key (if text: dropped).
AfterKeyDownAlwaysChar(n) == "key_char"

\* send_key, line 132 (if text:): what follows the keyDown call of key n
AfterKeyDown(n) == IF KeySeq[n].text # "" THEN "key_char" ELSE "key_up"
\* where run_test continues when the call that is in recv at p returns
AfterReturn(p, n) ==
    IF p = "front_recv" THEN "baseline"
    ELSE IF p = "key_down_recv" THEN AfterKeyDown(n)
    ELSE IF p = "key_char_recv" THEN "key_up"
    ELSE IF n < Len(KeySeq) THEN "key_down" ELSE "verify"
KeyAfterReturn(p, n) ==
    IF p = "key_up_recv" /\ n < Len(KeySeq) THEN n + 1 ELSE n

\* an exception leaves run_test and is caught in main (lines 236-239)
RaiseToMain(e) ==
    /\ report' = "error"
    /\ caught' = e
    /\ rpc' = "main_wait"

\* exceptions of the websocket library
ConnectionRefused == [type |-> "ConnectionRefusedError", msg |-> ""]
ConnectionClosed == [type |-> "WebSocketConnectionClosedException", msg |-> ""]

\* run_test line 164, CDPClient.__init__: websocket.create_connection(ws_url)
RunConnect ==
    /\ rpc = "connect"
    /\ \E reachable \in BOOLEAN :
          IF reachable
            THEN /\ ws' = "open"
                 /\ cdp_cmd_id' = 0
                 /\ rpc' = "front"
                 /\ UNCHANGED <<report, caught>>
            ELSE /\ RaiseToMain(ConnectionRefused)
                 /\ UNCHANGED <<ws, cdp_cmd_id>>
    /\ UNCHANGED <<bridgeShared, callerVars, handlerVars, history, keyIdx,
                   before_tab, after_tab, exit_status, cdp_response, closeCount, sent,
                   cdpReturns, endpointVars>>

\* Faulty variant of NextCmdId: the counter is not advanced.
NextCmdIdStuck(n) == n

\* CDPClient.send_command line 110: self.cmd_id += 1 (Python integers do
\* not overflow)
NextCmdId(n) == n + 1

\* CDPClient.send_command, lines 110-116: self.cmd_id += 1; self.ws.send(...)
\* (ws.send raises when the endpoint has closed the connection)
CdpSend ==
    /\ rpc \in CdpCallSites
    /\ IF peerClosed
         THEN /\ RaiseToMain(ConnectionClosed)
              /\ UNCHANGED <<cdp_cmd_id, cdp_response, sent, pending>>
         ELSE /\ cdp_cmd_id' = NextCmdId(cdp_cmd_id)
              /\ sent' = Append(sent, [id |-> NextCmdId(cdp_cmd_id),
                                       method |-> CdpMethod(rpc),
                                       params |-> CdpParams(rpc, keyIdx)])
              /\ pending' = Append(pending, NextCmdId(cdp_cmd_id))
              /\ cdp_response' = NoFrame
              /\ rpc' = InRecv(rpc)
              /\ UNCHANGED <<report, caught>>
    /\ UNCHANGED <<bridgeShared, callerVars, handlerVars, history, keyIdx,
                   before_tab, after_tab, exit_status, ws, closeCount, cdpReturns, inbox,
                   peerClosed, eventCount>>

\* CDPClient.send_command, lines 117-118: response = json.loads(self.ws.recv());
\* return response (ws.recv blocks for a frame and raises on a closed connection)
CdpRecv ==
    /\ rpc \in RecvSites
    /\ inbox # <<>> \/ peerClosed
    /\ IF inbox # <<>>
         THEN /\ cdp_response' = Head(inbox)
              /\ inbox' = Tail(inbox)
              /\ cdpReturns' = cdpReturns + 1
              /\ rpc' = AfterReturn(rpc, keyIdx)
              /\ keyIdx' = KeyAfterReturn(rpc, keyIdx)
              /\ UNCHANGED <<report, caught>>
         ELSE /\ RaiseToMain(ConnectionClosed)
              /\ UNCHANGED <<cdp_response, inbox, cdpReturns, keyIdx>>
    /\ UNCHANGED <<bridgeShared, callerVars, handlerVars, history, before_tab,
                   after_tab, exit_status, ws, cdp_cmd_id, closeCount, sent, pending,
                   peerClosed, eventCount>>

(* ------------------------------ run_test ------------------------------ *)
\* Faulty variant of GetActiveTab: the success flag is not looked at.
GetActiveTabUnchecked(t) ==
    IF spc[t] = "raised"
      THEN [ok |-> FALSE, data |-> 0, exc |-> error[t]]
      ELSE [ok |-> TRUE, data |-> response[t].data, exc |-> NoError]

\* get_active_tab / get_all_tabs, lines 82-86 and 91-95: the outcome of the
\* wrapper once send_command has ended.  An exception of send_command
\* passes through; a response with success returns response['data'];
\* otherwise Exception(response.get('error', 'Unknown error')) is raised
\* (error "" stands for a response without the key).
GetActiveTab(t) ==
    IF spc[t] = "raised"
      THEN [ok |-> FALSE, data |-> 0, exc |-> error[t]]
      ELSE IF response[t].success
        THEN [ok |-> TRUE, data |-> response[t].data, exc |-> NoError]
        ELSE [ok |-> FALSE, data |-> 0,
              exc |-> [type |-> "Exception",
                       msg |-> IF response[t].error = "" THEN "Unknown error"
                                                         ELSE response[t].error]]

BridgeCallOk(t) == GetActiveTab(t).ok

\* run_test line 172 / get_active_tab line 82: send_command('get_active_tab')
RunBaselineCall ==
    /\ rpc = "baseline"
    /\ SendEnqueue(Main, "get_active_tab", DefaultTimeout)
    /\ rpc' = "baseline_wait"
    /\ UNCHANGED <<keyIdx, before_tab, after_tab, report, caught, exit_status,
                   cdpVars, endpointVars>>

\* Faulty variant of RunBaselineReturn: the except branch does not return (line 177 missing).
RunBaselineNoReturn ==
    /\ rpc = "baseline_wait"
    /\ spc[Main] \in {"returned", "raised"}
    /\ IF BridgeCallOk(Main)
         THEN /\ before_tab' = GetActiveTab(Main).data
              /\ UNCHANGED <<report, caught>>
         ELSE /\ before_tab' = before_tab
              /\ report' = "baseline_unavailable"
              /\ caught' = GetActiveTab(Main).exc
    /\ rpc' = "key_down"
    /\ keyIdx' = 1
    /\ UNCHANGED <<bridgeShared, callerVars, handlerVars, history, after_tab,
                   exit_status, cdpVars, endpointVars>>

\* run_test lines 171-179: before_tab = get_active_tab(), or the except
\* branch (TimeoutError or the remote error): print and return
RunBaselineReturn ==
    /\ rpc = "baseline_wait"
    /\ spc[Main] \in {"returned", "raised"}
    /\ IF BridgeCallOk(Main)
         THEN /\ before_tab' = GetActiveTab(Main).data
              /\ rpc' = "key_down"
              /\ keyIdx' = 1
              /\ UNCHANGED <<report, caught>>
         ELSE /\ report' = "baseline_unavailable"
              /\ caught' = GetActiveTab(Main).exc
              /\ rpc' = "main_wait"
              /\ UNCHANGED <<before_tab, keyIdx>>
    /\ UNCHANGED <<bridgeShared, callerVars, handlerVars, history, after_tab,
                   exit_status, cdpVars, endpointVars>>

\* run_test lines 195-196: time.sleep(1); get_active_tab()
RunVerifyCall ==
    /\ rpc = "verify"
    /\ SendEnqueue(Main, "get_active_tab", DefaultTimeout)
    /\ rpc' = "verify_wait"
    /\ UNCHANGED <<keyIdx, before_tab, after_tab, report, caught, exit_status,
                   cdpVars, endpointVars>>

\* Faulty variant of Verdict: the comparison of line 200 inverted.
VerdictInverted(before_id, after_id) ==
    IF before_id = after_id THEN "passed" ELSE "failed"

\* run_test lines 200-206: if before_tab['id'] != after_tab['id']: the run
\* prints TEST PASSED, else TEST FAILED
Verdict(before_id, after_id) ==
    IF before_id # after_id THEN "passed" ELSE "failed"

\* run_test lines 196-206: after_tab = get_active_tab() and the comparison;
\* an exception of get_active_tab leaves run_test
RunVerifyReturn ==
    /\ rpc = "verify_wait"
    /\ spc[Main] \in {"returned", "raised"}
    /\ IF BridgeCallOk(Main)
         THEN /\ after_tab' = GetActiveTab(Main).data
              /\ report' = Verdict(before_tab, GetActiveTab(Main).data)
              /\ rpc' = "cleanup"
              /\ caught' = caught
         ELSE /\ RaiseToMain(GetActiveTab(Main).exc)
              /\ after_tab' = after_tab
    /\ UNCHANGED <<bridgeShared, callerVars, handlerVars, history, keyIdx,
                   before_tab, exit_status, cdpVars, endpointVars>>

\* run_test lines 208-214, CDPClient.close: self.ws.close()
RunCleanup ==
    /\ rpc = "cleanup"
    /\ ws' = "closed"
    /\ closeCount' = closeCount + 1
    /\ rpc' = "main_wait"
    /\ UNCHANGED <<bridgeShared, callerVars, handlerVars, history, keyIdx,
                   before_tab, after_tab, report, caught, exit_status,
                   cdp_cmd_id, cdp_response, sent, cdpReturns, endpointVars>>

\* main lines 241-249: after run_test, while True: time.sleep(1) until
\* KeyboardInterrupt; main then returns and the interpreter exits with 0
MainExit ==
    /\ rpc = "main_wait"
    /\ rpc' = "exited"
    /\ exit_status' = 0
    /\ UNCHANGED <<bridgeShared, callerVars, handlerVars, history, keyIdx,
                   before_tab, after_tab, report, caught, cdpVars, endpointVars>>

(* ---------------------------- CDP endpoint ---------------------------- *)
\* the endpoint answers its oldest unanswered request
CdpReply ==
    /\ ws = "open" /\ ~peerClosed
    /\ pending # <<>>
    /\ inbox' = Append(inbox, [id |-> Head(pending)])
    /\ pending' = Tail(pending)
    /\ UNCHANGED <<bridgeShared, callerVars, handlerVars, history, runVars,
                   cdpVars, peerClosed, eventCount>>

\* the endpoint sends a frame that answers no request (an event notification)
CdpEvent ==
    /\ ws = "open" /\ ~peerClosed
    /\ eventCount < MaxEvents
    /\ inbox' = Append(inbox, [id |-> 0])
    /\ eventCount' = eventCount + 1
    /\ UNCHANGED <<bridgeShared, callerVars, handlerVars, history, runVars,
                   cdpVars, pending, peerClosed>>

\* the endpoint closes the connection
CdpPeerClose ==
    /\ ws = "open" /\ ~peerClosed
    /\ peerClosed' = TRUE
    /\ UNCHANGED <<bridgeShared, callerVars, handlerVars, history, runVars,
                   cdpVars, pending, inbox, eventCount>>

(* --------------------------- specifications --------------------------- *)
Init ==
    /\ command_queue = <<>>
    /\ response_dict = <<>>
    /\ spc = [t \in Threads |-> "idle"]
    /\ cmd_id = [t \in Threads |-> 0]    \* no command sent yet
    /\ command = [t \in Threads |-> ""]
    /\ timeout = [t \in Threads |-> 0]
    /\ elapsed = [t \in Threads |-> 0]
    /\ response = [t \in Threads |-> NoResult]
    /\ error = [t \in Threads |-> NoError]
    /\ hpc = [h \in Handlers |-> "idle"]
    /\ indexErrors = FALSE
    /\ usedIds = {}
    /\ enqueued = <<>>
    /\ delivered = <<>>
    /\ lastPosted = [i \in Ids |-> NoResult]
    /\ postCount = [i \in Ids |-> 0]
    /\ rpc = "connect"
    /\ keyIdx = 0
    /\ before_tab = 0
    /\ after_tab = 0
    /\ report = "none"
    /\ caught = NoError
    /\ exit_status = -1
    /\ ws = "none"
    /\ cdp_cmd_id = 0
    /\ cdp_response = NoFrame
    /\ closeCount = 0
    /\ sent = <<>>
    /\ cdpReturns = 0
    /\ pending = <<>>
    /\ inbox = <<>>
    /\ peerClosed = FALSE
    /\ eventCount = 0

\* Concurrent callers of ExtensionBridge.send_command against the server.
\* Caller t sends the command of one of the two wrappers (lines 82, 91),
\* with a timeout of its choice, and may call again when its call has ended.
CommandOf(t) == IF t % 2 = 1 THEN "get_active_tab" ELSE "get_all_tabs"
CallerSend(t) ==
    /\ \E to \in 0..MaxTimeout : SendEnqueue(t, CommandOf(t), to)
    /\ UNCHANGED <<runVars, cdpVars, endpointVars>>

NextBridge ==
    \/ \E t \in Callers : CallerSend(t)
    \/ \E t \in Callers : SendWhile(t)
    \/ \E t \in Callers : SendDeadline(t)
    \/ \E t \in Callers : SendPop(t)
    \/ \E h \in Handlers : GetCheck(h)
    \/ \E h \in Handlers : GetPop(h)
    \/ \E i \in Claimed, r \in Results : PostResponse(i, r)
    \/ Tick

SpecBridge == Init /\ [][NextBridge]_vars

\* The end-to-end run of main: the main thread, the bridge server polled
\* by the extension, and the CDP endpoint.
NextRun ==
    \/ RunConnect
    \/ CdpSend
    \/ CdpRecv
    \/ RunBaselineCall
    \/ SendWhile(Main)
    \/ SendDeadline(Main)
    \/ SendPop(Main)
    \/ RunBaselineReturn
    \/ RunVerifyCall
    \/ RunVerifyReturn
    \/ RunCleanup
    \/ MainExit
    \/ \E h \in Handlers : GetCheck(h)
    \/ \E h \in Handlers : GetPop(h)
    \/ \E i \in Claimed, r \in Results : PostResponse(i, r)
    \/ Tick
    \/ CdpReply
    \/ CdpEvent
    \/ CdpPeerClose

SpecRun == Init /\ [][NextRun]_vars

\* The scheduling the bridge relies on: every started thread keeps running
\* (request handlers, the wait loop of send_command), the poller keeps
\* polling, and time passes.  Callers need not call again and the poller
\* need not ever post a result.
FairBridge ==
    /\ \A h \in Handlers : WF_vars(GetCheck(h)) /\ WF_vars(GetPop(h))
    /\ \A t \in Callers :
          WF_vars(SendWhile(t)) /\ WF_vars(SendDeadline(t)) /\ WF_vars(SendPop(t))
    /\ WF_vars(Tick)

SpecBridgeFair == Init /\ [][NextBridge]_vars /\ FairBridge

\* The scheduling of the end-to-end run: the main thread and the request
\* handlers keep running and time passes.  The extension need not post,
\* the CDP endpoint need not reply, send events or close, and nobody need
\* press Ctrl+C.
FairRun ==
    /\ WF_vars(RunConnect) /\ WF_vars(CdpSend) /\ WF_vars(CdpRecv)
    /\ WF_vars(RunBaselineCall) /\ WF_vars(RunBaselineReturn)
    /\ WF_vars(RunVerifyCall) /\ WF_vars(RunVerifyReturn)
    /\ WF_vars(RunCleanup)
    /\ WF_vars(SendWhile(Main)) /\ WF_vars(SendDeadline(Main))
    /\ WF_vars(SendPop(Main))
    /\ \A h \in Handlers : WF_vars(GetCheck(h)) /\ WF_vars(GetPop(h))
    /\ WF_vars(Tick)

SpecRunFair == Init /\ [][NextRun]_vars /\ FairRun

(* ------------------------------ claims -------------------------------- *)
Position(x, s) == CHOOSE n \in 1..Len(s) : s[n] = x

\* C1: under every interleaving of get_command requests and send_command
\* enqueues, each appended Command is either still in the queue or was
\* returned by exactly one get_command call, never by two and never lost.
NoCommandLostOrDuplicated ==
    \A i \in Ids :
        /\ Count(i, enqueued) = Count(i, IdsOf(command_queue)) + Count(i, delivered)
        /\ Count(i, delivered) <= 1

\* C1 witness: two get_command requests are past the emptiness test at the
\* same time, one Command has been returned and another is still queued.
TwoHandlersRacing ==
    /\ \E h1, h2 \in Handlers : h1 # h2 /\ hpc[h1] = "pop" /\ hpc[h2] = "pop"
    /\ Len(delivered) >= 1
    /\ Len(command_queue) >= 1

\* C2: with fair polling every enqueued Command is eventually returned by
\* a get_command call.
EveryCommandEventuallyClaimed ==
    \A i \in Ids :
        (\E n \in 1..Len(command_queue) : command_queue[n].id = i) ~> (i \in Claimed)

\* C2 witness: at least two Commands were enqueued and all have been claimed.
AllClaimed ==
    /\ Len(enqueued) >= 2
    /\ command_queue = <<>>
    /\ Len(delivered) = Len(enqueued)

\* C3: the queue is FIFO across all enqueuers: if A was appended before B
\* then get_command returns A before it returns B.
QueueIsFifo ==
    \A m, n \in 1..Len(enqueued) :
        m < n =>
            \A q \in 1..Len(delivered) :
                delivered[q] = enqueued[n] =>
                    \E p \in 1..(q - 1) : delivered[p] = enqueued[m]

\* C3 witness: two different callers enqueued, and both Commands were returned.
TwoCallersDelivered ==
    \E t, u \in Callers :
        /\ t # u
        /\ cmd_id[t] \in Claimed /\ cmd_id[u] \in Claimed
        /\ Position(cmd_id[t], enqueued) < Position(cmd_id[u], enqueued)

\* C4: whatever the order of the post_response calls, a send_command that
\* returns a result returns the result posted under its own command id.
ReturnsOwnResult ==
    [][\A t \in Threads :
          (spc[t] = "pop" /\ spc'[t] = "returned")
              => response'[t] = lastPosted[cmd_id[t]]]_vars

\* C4 witness: two calls are outstanding and the Result of the call that
\* enqueued last was posted and returned first, while the call that enqueued
\* first is still waiting for its own.
OutOfOrderReturn ==
    \E t, u \in Callers :
        /\ t # u
        /\ spc[t] = "returned" /\ spc[u] \in {"while", "deadline"}
        /\ Position(cmd_id[u], enqueued) < Position(cmd_id[t], enqueued)
        /\ cmd_id[u] \in Claimed
        /\ postCount[cmd_id[t]] = 1 /\ postCount[cmd_id[u]] = 0
        /\ response[t] \in Results

TimeoutFires ==
    /\ [][\A t \in Threads :
            (spc[t] # "raised" /\ spc'[t] = "raised")
                => /\ elapsed[t] > timeout[t]
                   /\ error'[t] = [type |-> "TimeoutError", msg |-> command[t]]]_vars
    /\ \A t \in Callers :
          (spc[t] \in {"while", "deadline"})
              ~> (spc[t] = "raised" \/ (cmd_id[t] \in Ids /\ postCount[cmd_id[t]] > 0))

\* C6 witness: a call with a non-zero timeout has raised Timeout and no
\* Result was ever posted for its id.
TimedOutUnanswered ==
    \E t \in Callers :
        /\ spc[t] = "raised"
        /\ error[t] = [type |-> "TimeoutError", msg |-> CommandOf(t)]
        /\ postCount[cmd_id[t]] = 0

\* the key-press calls written to the connection, as <<type, key>>
KeyCalls ==
    LET evs == SelectSeq(sent, LAMBDA e : e.method = "Input.dispatchKeyEvent")
    IN  [n \in 1..Len(evs) |-> <<evs[n].params.type, evs[n].params.key>>]
\* what the claim expects of one key press
ExpectedPress(k) ==
    IF k.text # ""
      THEN << <<"keyDown", k.key_name>>, <<"char", k.key_name>>, <<"keyUp", k.key_name>> >>
      ELSE << <<"keyDown", k.key_name>>, <<"keyUp", k.key_name>> >>
\* ... and of the first n key presses of the run
RECURSIVE ExpectedUpTo(_)
ExpectedUpTo(n) ==
    IF n = 0 THEN <<>> ELSE ExpectedUpTo(n - 1) \o ExpectedPress(KeySeq[n])
ActDone == rpc \in {"verify", "verify_wait", "cleanup"} \/ report \in {"passed", "failed"}

\* C7: CDPClient.send_command returns only the reply whose id equals the
\* id of the request this call sent, also when the endpoint delivers other
\* frames before the matching reply.
CdpReturnsMatchingReply ==
    cdp_response # NoFrame => cdp_response.id = cdp_cmd_id

\* C8: on every exit path of the run after the CDP connection was opened
\* (normal completion, a failed Baseline query, an error raised during Act
\* or Verify), the connection is closed exactly once.  Setup is complete
\* once the Page.bringToFront call has returned.
CleanupAlwaysRuns ==
    (rpc = "main_wait" /\ ws # "none" /\ cdpReturns >= 1) => closeCount = 1

\* C9: a key press with a literal character issues exactly keyDown, char,
\* keyUp, one without issues exactly keyDown, keyUp; every call carries the
\* key name of its press, and a call is sent only after the previous call
\* has returned.
KeyPressOrdering ==
    /\ Len(KeyCalls) <= Len(ExpectedUpTo(Len(KeySeq)))
    /\ KeyCalls = SubSeq(ExpectedUpTo(Len(KeySeq)), 1, Len(KeyCalls))
    /\ rpc = "key_down" => KeyCalls = ExpectedUpTo(keyIdx - 1)
    /\ ActDone => KeyCalls = ExpectedUpTo(Len(KeySeq))
    /\ rpc \in CdpCallSites => Len(sent) = cdpReturns
    /\ Len(sent) - cdpReturns \in {0, 1}

\* C9 witness: the three key presses of the run are complete: seven calls.
AllKeysSent ==
    /\ rpc = "verify"
    /\ Len(KeyCalls) = 7
    /\ cdpReturns = 8

\* C10: if the Baseline bridge query fails (Timeout or a remote error), no
\* Input.dispatchKeyEvent call is ever sent in that run.
BaselineFailureSendsNoKey ==
    report = "baseline_unavailable" => KeyCalls = <<>>

\* C10 witness: the Baseline query timed out and the run has ended.
BaselineTimedOut ==
    /\ report = "baseline_unavailable"
    /\ rpc = "main_wait"
    /\ error[Main].type = "TimeoutError"
    /\ Len(sent) = 1

\* C11: when both the Baseline and the Verify query succeed, the verdict
\* is Passed exactly if the tab id of the Verify snapshot differs from the
\* Baseline's and Failed exactly if it is unchanged; exactly one of the two
\* verdicts is produced, and none without both snapshots.
VerdictFollowsTabChange ==
    /\ (before_tab # 0 /\ after_tab # 0) =>
          /\ report \in {"passed", "failed"}
          /\ report = "passed" <=> before_tab # after_tab
          /\ report = "failed" <=> before_tab = after_tab
    /\ report \in {"passed", "failed"} => (before_tab # 0 /\ after_tab # 0)

\* C11 witness: both queries succeeded, the active tab changed and the run
\* has printed its verdict.
TabChangedVerdict ==
    /\ before_tab # 0 /\ after_tab # 0
    /\ before_tab # after_tab
    /\ report = "passed"
    /\ rpc = "main_wait"

\* C12: a Result found for a bridge query is decoded by its success flag:
\* with success the query returns the Result's data; without, the query
\* raises an error that carries the Result's error text unchanged and no
\* data is returned (neither snapshot is assigned).
ResultDecodedBySuccess ==
    [][ (rpc \in {"baseline_wait", "verify_wait"} /\ rpc' # rpc
            /\ spc[Main] = "returned") =>
          IF response[Main].success
            THEN /\ rpc = "baseline_wait" => before_tab' = response[Main].data
                 /\ rpc = "verify_wait" => after_tab' = response[Main].data
                 /\ caught' = caught
            ELSE /\ caught' = [type |-> "Exception", msg |-> response[Main].error]
                 /\ before_tab' = before_tab
                 /\ after_tab' = after_tab ]_vars

\* C12 witness: the extension answered the Baseline query with success
\* false and an error text, and run_test caught the raised error.
RemoteErrorRaised ==
    /\ rpc = "main_wait"
    /\ spc[Main] = "returned"
    /\ ~response[Main].success
    /\ response[Main].error = "no active tab"
    /\ caught = [type |-> "Exception", msg |-> "no active tab"]
    /\ before_tab = 0

\* C13: the request ids sent on one CDPClient connection are strictly
\* increasing, hence pairwise distinct, and none exceeds the counter; no
\* id is carried by two requests that are outstanding at the same time
\* (unanswered, or answered with the reply not yet read).
CdpIdsStrictlyIncrease ==
    /\ \A m, n \in 1..Len(sent) : m < n => sent[m].id < sent[n].id
    /\ \A n \in 1..Len(sent) : sent[n].id >= 1 /\ sent[n].id <= cdp_cmd_id
    /\ \A n \in 1..Len(sent) :
          Count(sent[n].id, pending) + Count([id |-> sent[n].id], inbox) <= 1

\* C13 witness: two requests of the connection are unanswered at the same
\* time and a third has been sent before them.
TwoCdpRequestsUnanswered ==
    /\ Len(sent) >= 3
    /\ Len(pending) = 2

\* C14: post_response stores the posted Result under its id for any id,
\* overwriting an existing entry and leaving the other entries alone:
\* after a post for id i the table maps i to the Result posted last; and
\* posting the same Result twice in a row gives the table that posting it
\* once gives.
PostOverwritesAndIsIdempotent ==
    /\ [][ \A i \in Ids :
              postCount'[i] = postCount[i] + 1 =>
                /\ DOMAIN response_dict' = DOMAIN response_dict \cup {i}
                /\ response_dict'[i] = lastPosted'[i]
                /\ \A j \in DOMAIN response_dict \ {i} :
                      response_dict'[j] = response_dict[j] ]_vars
    /\ [](\A i \in Ids, r \in Results :
            /\ DictSet(response_dict, i, r)[i] = r
            /\ DictSet(DictSet(response_dict, i, r), i, r)
                  = DictSet(response_dict, i, r))

\* C14 witness: a second Result was posted for an id whose first Result
\* was still in the table (its caller is still waiting), and the table
\* holds the second.
ResultOverwritten ==
    \E t \in Callers :
        /\ spc[t] \in {"while", "deadline"}
        /\ postCount[cmd_id[t]] = 2
        /\ cmd_id[t] \in DOMAIN response_dict
        /\ response_dict[cmd_id[t]] = lastPosted[cmd_id[t]]

\* the run is over: main waits for Ctrl+C or the process has exited
RunEnded == rpc \in {"main_wait", "exited"}

\* C15: the exit status of the process tells the outcome of the run: zero
\* for a passing run, non-zero for a failing one (failed verdict, failed
\* Baseline, or an error in any step).
ExitStatusTellsOutcome ==
    rpc = "exited" =>
        /\ report = "passed" => exit_status = 0
        /\ report \in {"failed", "baseline_unavailable", "error"} => exit_status # 0

GetCommandNeverFails ==
    indexErrors = FALSE

\* the requests of the connection whose reply the client has not read:
\* those the endpoint has not answered and those whose reply is in flight
CdpOutstanding ==
    Len(pending) + Cardinality({n \in 1..Len(inbox) : inbox[n].id >= 1})

\* C18: a CDPClient never has a second request outstanding: at every
\* moment at most one request sent on the connection is without its
\* matching-id reply.
AtMostOneCdpRequestOutstanding ==
    CdpOutstanding <= 1

\* the run is over and its Baseline query had failed: get_active_tab was
\* called once, right after Page.bringToFront, and gave no snapshot
BaselineFailed ==
    /\ RunEnded
    /\ Len(sent) = 1 /\ cdpReturns = 1
    /\ spc[Main] \in {"returned", "raised"}
    /\ before_tab = 0

\* C19: a failed Baseline query is reported, the run moves directly to
\* Cleanup (the connection is closed) and ends with the result Failed, not
\* without a verdict.
FailedBaselineEndsFailed ==
    BaselineFailed =>
        /\ report = "failed"
        /\ closeCount = 1
        /\ ws = "closed"

\* C20: the wait for the reply in CDPClient.send_command is bounded: also
\* when the endpoint never sends a reply, the call ends (with an error)
\* instead of blocking forever.
CdpCallTerminates ==
    (rpc \in RecvSites) ~> (rpc \notin RecvSites)

\* C21: stale results do not accumulate: a Result that is in the table
\* for an id whose send_command has ended in Timeout is eventually removed
\* from the table.
StaleResultsExpire ==
    \A t \in Callers, i \in Ids :
        (/\ spc[t] = "raised" /\ error[t].type = "TimeoutError"
         /\ cmd_id[t] = i
         /\ i \in DOMAIN response_dict)
            ~> (i \notin DOMAIN response_dict)

\* the call of thread t has ended in Timeout
TimedOut(t) == spc[t] = "raised" /\ error[t].type = "TimeoutError"

\* C22: a send_command call that times out only stops waiting: the step
\* that raises Timeout leaves the pending queue and the result table as
\* they are, and the abandoned Command is afterwards either still in the
\* queue, where a get_command can take it, or was returned by one.
TimeoutOnlyStopsWaiting ==
    /\ [][ \A t \in Threads :
              (spc[t] = "deadline" /\ spc'[t] = "raised") =>
                 /\ command_queue' = command_queue
                 /\ response_dict' = response_dict ]_vars
    /\ [](\A t \in Threads :
            TimedOut(t) =>
               Count(cmd_id[t], IdsOf(command_queue))
                  + Count(cmd_id[t], delivered) = 1)

\* C22 witness: a call has ended in Timeout while its Command was not yet
\* claimed: the Command is still in the queue.
AbandonedCommandStillQueued ==
    \E t \in Callers :
        /\ TimedOut(t)
        /\ Count(cmd_id[t], IdsOf(command_queue)) = 1
        /\ Count(cmd_id[t], delivered) = 0

\* thread t is inside a send_command call / its call has ended
InCall(t) == spc[t] \in {"while", "deadline", "pop"}
CallEnded(t) == spc[t] \in {"returned", "raised"}

\* C23: send_command never retries: a Command is appended only by the
\* start of a call, one per call, so the Command of a call is in the
\* history of appends exactly once, however the call ends; and a wait
\* whose deadline has passed ends by raising Timeout to the caller, while
\* a call returns only with a posted Result.
NoRetryTimeoutRaised ==
    /\ [][ \A t \in Threads :
              /\ (InCall(t) /\ cmd_id'[t] = cmd_id[t]) =>
                     Count(cmd_id[t], enqueued') = Count(cmd_id[t], enqueued)
              /\ (spc[t] = "deadline" /\ elapsed[t] > timeout[t]
                      /\ spc'[t] # spc[t]) =>
                     /\ spc'[t] = "raised"
                     /\ error'[t] = [type |-> "TimeoutError", msg |-> command[t]]
              /\ (InCall(t) /\ spc'[t] = "returned") => response'[t] \in Results ]_vars
    /\ [][ Len(enqueued') # Len(enqueued) =>
              \E t \in Threads :
                 /\ ~InCall(t) /\ spc'[t] = "while"
                 /\ enqueued' = Append(enqueued, cmd_id'[t])
                 /\ command_queue' = Append(command_queue,
                        [id |-> cmd_id'[t], command |-> command'[t], params |-> <<>>]) ]_vars
    /\ [](\A t \in Threads :
            (InCall(t) \/ CallEnded(t)) => Count(cmd_id[t], enqueued) = 1)

\* C23 witness: two calls were made and two Commands appended; one call
\* has ended in Timeout and the other has returned a Result.
OneTimedOutOneReturned ==
    \E t, u \in Callers :
        /\ TimedOut(t)
        /\ spc[u] = "returned"
        /\ Len(enqueued) = 2

\* C24: under every interleaving of post_response with the wait loop,
\* send_command raises Timeout only when the result table holds no entry
\* for its command id at the moment of raising: a Result posted between
\* the presence test and the deadline test is not dropped for a Timeout.
TimeoutOnlyWithoutResult ==
    [][ \A t \in Threads :
          (spc[t] = "deadline" /\ spc'[t] = "raised") =>
             cmd_id[t] \notin DOMAIN response_dict ]_vars

====
